---- MODULE Spec2Model ----
(***************************************************************************)
(* HomeSage rental application: the application lifecycle and the lease    *)
(* issuance transaction of server/src/controllers/applicationControllers.ts*)
(*                                                                         *)
(* The persistent store (Application, Lease rows and the property-tenant   *)
(* membership) is the shared state.  Every request handler is a process    *)
(* that runs from one await to the next in one step; any number of other   *)
(* handlers' steps may happen between two of its awaits.                   *)
(*                                                                         *)
(* Spec runs the handlers that write, any number of them at once; SpecSeq  *)
(* runs one request at a time, listApplications included; SpecLive is      *)
(* SpecSeq in which every store access is answered; SpecRent runs one      *)
(* request at a time while the Property rows change; SpecPay runs          *)
(* calculateNextPaymentDate on its own, on calendar dates; SpecForm runs   *)
(* the ApplicationForm component of the client on its own.                 *)
(***************************************************************************)
EXTENDS Integers, Sequences, FiniteSets, Bags, TLC

(* ------------------------------ bounds --------------------------------- *)
\* request handlers that may be in flight at once
MaxReqs == 2
\* rows the Application table may hold
MaxApps == 2
\* rows the Lease table may hold
MaxLeases == 2
\* last instant of the clock
MaxNow == 2
\* the dates tried for calculateNextPaymentDate: the calendar year of month 0,
\* the last month of a startDate and the last month of today, counted from month 0
FirstYear == 2024
MaxStartMonth == 1
MaxTodayMonth == 4
\* calls of handleNext that may be waiting for form.trigger at once
MaxCalls == 2

(* --------------------------- program constants -------------------------- *)
\* the fixed term of a lease, setFullYear(getFullYear() + 1): one year is one clock tick
LeaseTerm == 1

\* the rows of the Property and Tenant tables (never created or deleted here)
Properties == {1, 2}
Tenants == {"T1", "T2"}

\* the price and the deposit of a Property row: as listed, and after a change
Listed == [pricePerMonth |-> 1000, securityDeposit |-> 500]
Repriced == [pricePerMonth |-> 1200, securityDeposit |-> 600]
PropertyRows == {Listed, Repriced}

\* a null reference (leaseId) and an absent payload field
Null == 0
Absent == ""

validStatuses == {"Pending", "Approved", "Denied"}

\* Property.managerCognitoId of the two properties
managerCognitoId(propertyId) == IF propertyId = 1 THEN "M1" ELSE "M2"

(* --------------------------- ApplicationForm --------------------------- *)
\* steps.length: the steps of the form
StepsLength == 6

\* the props of the form: the property applied for and the tenant applying
FormPropertyId == 1
FormTenantId == "T1"

\* text typed into a field, as its characters
NoText == <<>>
SomeText == <<"x">>
TenDigits == <<"5", "5", "5", "0", "1", "0", "0", "0", "0", "0">>
FiveDigits == <<"9", "0", "2", "1", "0">>

\* the values of the fields before anything is typed: defaultValues sets the four
\* switches, every other field has no value
Blank ==
    [firstName |-> NoText, lastName |-> NoText, email |-> NoText, phone |-> NoText,
     dateOfBirth |-> NoText,
     currentAddress |-> NoText, currentCity |-> NoText, currentState |-> NoText,
     currentZip |-> NoText, moveInDate |-> NoText,
     employmentStatus |-> "", employer |-> NoText, occupation |-> NoText,
     annualIncome |-> NoText, employmentLength |-> NoText,
     emergencyContactName |-> NoText, emergencyContactPhone |-> NoText,
     emergencyContactRelationship |-> NoText,
     previousLandlordName |-> NoText, previousLandlordPhone |-> NoText,
     numberOfOccupants |-> NoText, hasPets |-> FALSE, petDetails |-> NoText,
     hasVehicles |-> FALSE, vehicleDetails |-> NoText,
     hasEvictionHistory |-> FALSE, evictionDetails |-> NoText,
     hasCriminalHistory |-> FALSE, criminalDetails |-> NoText,
     additionalNotes |-> NoText]

\* every required field filled in with a value that applicationSchema accepts
Filled ==
    [Blank EXCEPT !.firstName = SomeText, !.lastName = SomeText,
                  !.email = <<"a", "@", "b", ".", "c">>, !.phone = TenDigits,
                  !.dateOfBirth = SomeText,
                  !.currentAddress = SomeText, !.currentCity = SomeText,
                  !.currentState = SomeText, !.currentZip = FiveDigits,
                  !.moveInDate = SomeText,
                  !.employmentStatus = "employed", !.annualIncome = <<"5", "0">>,
                  !.emergencyContactName = SomeText,
                  !.emergencyContactPhone = TenDigits,
                  !.emergencyContactRelationship = SomeText,
                  !.numberOfOccupants = <<"2">>]

\* the values the tenant may have typed: nothing, everything, everything with a
\* phone number that is too short, everything but the number of occupants
FormValues ==
    {Blank, Filled,
     [Filled EXCEPT !.phone = FiveDigits],
     [Filled EXCEPT !.numberOfOccupants = NoText]}

\* no submission yet
NoPayload == [submitted |-> FALSE]

\* the form when it is mounted: useState(1), nothing typed, no call in flight
InitForm ==
    [currentStep |-> 1, values |-> Blank, calls |-> EmptyBag,
     isLoading |-> FALSE, payload |-> NoPayload]

(* ------------------------------ inputs --------------------------------- *)
\* req.body.propertyId: absent, a row of Property, or an id of no row
PropertyIdInputs == {Null} \cup Properties \cup {9}
\* req.body.tenantCognitoId: absent, a row of Tenant, or an id of no row
TenantIdInputs == {Absent} \cup Tenants \cup {"TX"}
\* req.body.name and req.body.phoneNumber
NameInputs == {Absent, "A"}
PhoneInputs == {Absent, "555-0100"}
\* req.body.email, as its characters
ValidEmail == <<"a", "@", "b", ".", "c">>
EmailInputs == { <<>>, ValidEmail, <<"a", "@", "b">>, <<"a", " ", "@", "b", ".", "c">> }
\* req.body.status of a submission: absent, or a value of the status enum
CreateStatusInputs == {Absent, "Approved"}
\* req.body.status of a status update
UpdateStatusInputs == {Absent, "approved"} \cup validStatuses
\* req.params.id
IdInputs == 1..(MaxApps + 1)
\* req.query.userId and req.query.userType of listApplications
UserIdInputs == {Absent, "T1", "M1", "TX"}
UserTypeInputs == {Absent, "tenant", "manager", "admin"}

\* a submission
Body(propertyId, tenantCognitoId, name, email, phoneNumber, status) ==
    [propertyId |-> propertyId, tenantCognitoId |-> tenantCognitoId, name |-> name,
     email |-> email, phoneNumber |-> phoneNumber, status |-> status]

\* the well-formed submissions, for every property and tenant, with and without a status field
WellFormed ==
    {Body(p, t, "A", ValidEmail, "555-0100", st) :
        p \in Properties, t \in Tenants, st \in CreateStatusInputs}

\* the submissions of tenant T1 for property 1 in which up to two fields are bad
BadProperty == PropertyIdInputs \ {2}
BadTenant == TenantIdInputs \ {"T2"}
Malformed ==
    {Body(p, t, "A", ValidEmail, "555-0100", Absent) : p \in BadProperty, t \in BadTenant}
    \cup {Body(p, "T1", n, ValidEmail, "555-0100", Absent) : p \in BadProperty, n \in NameInputs}
    \cup {Body(p, "T1", "A", e, "555-0100", Absent) : p \in BadProperty, e \in EmailInputs}
    \cup {Body(p, "T1", "A", ValidEmail, ph, Absent) : p \in BadProperty, ph \in PhoneInputs}
    \cup {Body(1, t, n, ValidEmail, "555-0100", Absent) : t \in BadTenant, n \in NameInputs}
    \cup {Body(1, t, "A", e, "555-0100", Absent) : t \in BadTenant, e \in EmailInputs}
    \cup {Body(1, t, "A", ValidEmail, ph, Absent) : t \in BadTenant, ph \in PhoneInputs}
    \cup {Body(1, "T1", n, e, "555-0100", Absent) : n \in NameInputs, e \in EmailInputs}
    \cup {Body(1, "T1", n, ValidEmail, ph, Absent) : n \in NameInputs, ph \in PhoneInputs}
    \cup {Body(1, "T1", "A", e, ph, Absent) : e \in EmailInputs, ph \in PhoneInputs}

\* the submissions tried
Bodies == WellFormed \cup Malformed

VARIABLES
    applications,   \* the Application table: row id -> row
    leases,         \* the Lease table: row id -> row
    tenants,        \* the property-tenant membership: set of <<propertyId, cognitoId>>
    now,            \* the clock (new Date())
    req,            \* the request handlers suspended at an await: a bag of their locals
    response,       \* the response sent by the last step, if it sent one
    payment,        \* a call of calculateNextPaymentDate: its startDate, today and result
    properties,     \* the Property table: row id -> pricePerMonth and securityDeposit
    form            \* the ApplicationForm component in the browser of a tenant

vars == <<applications, leases, tenants, now, req, response, payment, properties, form>>

(* ------------------------------ helpers -------------------------------- *)
\* the characters [^\s@] of emailRegex
IsPlain(c) == c # " " /\ c # "@"

\* /^[^\s@]+@[^\s@]+\.[^\s@]+$/ .test(email)
emailRegex(email) ==
    \E i \in 1..Len(email), j \in 1..Len(email) :
        /\ 1 < i /\ i + 1 < j /\ j < Len(email)
        /\ email[i] = "@"
        /\ email[j] = "."
        /\ \A k \in 1..Len(email) : k # i => IsPlain(email[k])

\* the locals of a handler: the operation, the await it is suspended at, its
\* inputs, and the status of the row that findUnique returned (application.status);
\* a handler of updateApplicationStatus also holds the Property row that findUnique
\* included (application.property)
Handler(op, pc, propertyId, tenantCognitoId, status, id, application) ==
    [op |-> op, pc |-> pc, propertyId |-> propertyId,
     tenantCognitoId |-> tenantCognitoId, status |-> status, id |-> id,
     application |-> application]

\* a response: the operation, the outcome, and the application it is about
\* (the row created, or req.params.id)
Response(op, resp, id) == [op |-> op, resp |-> resp, id |-> id]

NoResponse == Response("none", "none", Null)

\* the HTTP status code of a response
StatusCode(resp) ==
    CASE resp = "Created" -> 201
      [] resp = "Updated" -> 200
      [] resp \in {"MissingField", "InvalidEmail", "InvalidStatus",
                   "CannotModifyApproved"} -> 400
      [] resp \in {"PropertyNotFound", "TenantNotFound",
                   "ApplicationNotFound"} -> 404
      [] resp \in {"DuplicateApproved", "DuplicatePending",
                   "LeaseAlreadyExists", "ActiveLeaseExists"} -> 409
      [] resp = "ServerError" -> 500
      [] OTHER -> 0

\* no date (there is no day 0), and no call of calculateNextPaymentDate
NoDate == [month |-> 0, day |-> 0]
NoPayment == [startDate |-> NoDate, today |-> NoDate, nextPaymentDate |-> NoDate]

\* the message of an error response
Message(resp) ==
    CASE resp = "MissingField" -> "Missing required fields"
      [] resp = "InvalidEmail" -> "Invalid email format"
      [] resp = "PropertyNotFound" -> "Property not found"
      [] resp = "TenantNotFound" -> "Tenant not found"
      [] resp = "DuplicateApproved" -> "You have already been approved for this property"
      [] resp = "DuplicatePending" -> "You already have a pending application for this property"
      [] resp = "InvalidStatus" -> "Invalid status. Must be one of: Pending, Approved, Denied"
      [] resp = "ApplicationNotFound" -> "Application not found."
      [] resp = "CannotModifyApproved" -> "Cannot change status of an already approved application"
      [] resp = "LeaseAlreadyExists" -> "A lease already exists for this application"
      [] resp = "ActiveLeaseExists" -> "Tenant already has an active lease for this property"
      [] OTHER -> ""

AppIds == 1..Len(applications)
LeaseIds == 1..Len(leases)

\* the handlers in flight, and how many of them there are
InFlight == BagToSet(req)
Count(S) == BagCardinality([h \in S |-> req[h]])
\* handlers in flight that will still insert an Application / a Lease
PendingCreates == Count({h \in InFlight : h.op = "create"})
PendingApprovals == Count({h \in InFlight : h.pc \in {"findLease", "transaction"}})

\* the bag of handlers after handler h has moved on to g / has answered / a new one g started
Moved(h, g) == (req (-) SetToBag({h})) (+) SetToBag({g})
Gone(h) == req (-) SetToBag({h})
Started(g) == req (+) SetToBag({g})

(* ------------------------------- Init ---------------------------------- *)
Init ==
    /\ applications = <<>>
    /\ leases = <<>>
    /\ tenants = {}
    /\ now = 0
    /\ req = EmptyBag
    /\ response = NoResponse
    /\ payment = NoPayment
    /\ properties = [p \in Properties |-> Listed]
    /\ form = InitForm

(* --------------------------- createApplication -------------------------- *)
\* the rows prisma.application.findFirst may return for the duplicate check
existingApplication(propertyId, tenantCognitoId) ==
    {a \in AppIds : /\ applications[a].propertyId = propertyId
                    /\ applications[a].tenantCognitoId = tenantCognitoId
                    /\ applications[a].status \in {"Pending", "Approved"}}


\* the checks with the lookups of the property and the tenant made before the
\* validation of the payload
createApplicationChecksLookupFirst(body) ==
    IF body.propertyId \notin Properties
    THEN {"PropertyNotFound"}
    ELSE IF body.tenantCognitoId \notin Tenants
    THEN {"TenantNotFound"}
    ELSE IF \/ body.name = Absent \/ body.email = <<>> \/ body.phoneNumber = Absent
    THEN {"MissingField"}
    ELSE IF ~emailRegex(body.email)
    THEN {"InvalidEmail"}
    ELSE LET found == existingApplication(body.propertyId, body.tenantCognitoId)
         IN IF found = {}
            THEN {"create"}
            ELSE {IF applications[a].status = "Approved"
                  THEN "DuplicateApproved" ELSE "DuplicatePending" : a \in found}

\* the checks with the tenant looked up before the property
createApplicationChecksTenantFirst(body) ==
    IF \/ body.propertyId = Null \/ body.tenantCognitoId = Absent \/ body.name = Absent
       \/ body.email = <<>> \/ body.phoneNumber = Absent
    THEN {"MissingField"}
    ELSE IF ~emailRegex(body.email)
    THEN {"InvalidEmail"}
    ELSE IF body.tenantCognitoId \notin Tenants
    THEN {"TenantNotFound"}
    ELSE IF body.propertyId \notin Properties
    THEN {"PropertyNotFound"}
    ELSE LET found == existingApplication(body.propertyId, body.tenantCognitoId)
         IN IF found = {}
            THEN {"create"}
            ELSE {IF applications[a].status = "Approved"
                  THEN "DuplicateApproved" ELSE "DuplicatePending" : a \in found}

\* the outcomes of the checks of a submission, in the order of the code: an error,
\* or "create" when all of them pass.  findFirst has no orderBy: with several
\* matching rows any of them may be the one returned
createApplicationChecks(body) ==
    IF \/ body.propertyId = Null \/ body.tenantCognitoId = Absent \/ body.name = Absent
       \/ body.email = <<>> \/ body.phoneNumber = Absent
    THEN {"MissingField"}
    ELSE IF ~emailRegex(body.email)
    THEN {"InvalidEmail"}
    ELSE IF body.propertyId \notin Properties
    THEN {"PropertyNotFound"}
    ELSE IF body.tenantCognitoId \notin Tenants
    THEN {"TenantNotFound"}
    ELSE LET found == existingApplication(body.propertyId, body.tenantCognitoId)
         IN IF found = {}
            THEN {"create"}
            ELSE {IF applications[a].status = "Approved"
                  THEN "DuplicateApproved" ELSE "DuplicatePending" : a \in found}

\* the request arrives and runs up to the await of prisma.application.create:
\* validation, the lookups of the property and the tenant, the duplicate check
createApplicationCheck(body) ==
    /\ response = NoResponse
    /\ BagCardinality(req) < MaxReqs
    /\ \E outcome \in createApplicationChecks(body) :
         IF outcome = "create"
         THEN /\ Len(applications) + PendingCreates < MaxApps
              /\ req' = Started(Handler("create", "create", body.propertyId,
                                        body.tenantCognitoId, body.status, Null, Absent))
              /\ response' = NoResponse
         ELSE /\ req' = req
              /\ response' = Response("create", outcome, Null)
    /\ UNCHANGED <<applications, leases, tenants, now, payment, properties, form>>

\* the status a new row gets: status || "Pending"
createStatus(status) == IF status # Absent THEN status ELSE "Pending"

\* a create that the store refuses when the pair has a Pending or Approved
\* application (a unique constraint)
createApplicationCreateUnique(h) ==
    /\ response = NoResponse
    /\ h \in InFlight /\ h.pc = "create"
    /\ IF existingApplication(h.propertyId, h.tenantCognitoId) # {}
       THEN /\ applications' = applications
            /\ response' = Response("create", "DuplicatePending", Null)
       ELSE /\ applications' = Append(applications,
                  [propertyId |-> h.propertyId,
                   tenantCognitoId |-> h.tenantCognitoId,
                   status |-> createStatus(h.status),
                   leaseId |-> Null])
            /\ response' = Response("create", "Created", Len(applications) + 1)
    /\ req' = Gone(h)
    /\ UNCHANGED <<leases, tenants, now, payment, properties, form>>

\* a submission that creates the lease together with the application
createApplicationCreateWithLease(h) ==
    /\ response = NoResponse
    /\ h \in InFlight /\ h.pc = "create"
    /\ Len(leases) < MaxLeases
    /\ leases' = Append(leases, [startDate |-> now, endDate |-> now + LeaseTerm,
                                  rent |-> properties[h.propertyId].pricePerMonth,
                                  deposit |-> properties[h.propertyId].securityDeposit,
                                  propertyId |-> h.propertyId,
                                  tenantCognitoId |-> h.tenantCognitoId])
    /\ applications' = Append(applications,
          [propertyId |-> h.propertyId,
           tenantCognitoId |-> h.tenantCognitoId,
           status |-> createStatus(h.status),
           leaseId |-> Len(leases) + 1])
    /\ req' = Gone(h)
    /\ response' = Response("create", "Created", Len(applications) + 1)
    /\ UNCHANGED <<tenants, now, payment, properties, form>>

\* prisma.application.create and the 201 response
createApplicationCreate(h) ==
    /\ response = NoResponse
    /\ h \in InFlight /\ h.pc = "create"
    /\ applications' = Append(applications,
          [propertyId |-> h.propertyId,
           tenantCognitoId |-> h.tenantCognitoId,
           status |-> createStatus(h.status),
           leaseId |-> Null])
    /\ req' = Gone(h)
    /\ response' = Response("create", "Created", Len(applications) + 1)
    /\ UNCHANGED <<leases, tenants, now, payment, properties, form>>

\* prisma.application.create throws: the catch block answers 500, no row is inserted
createApplicationCatch(h) ==
    /\ response = NoResponse
    /\ h \in InFlight /\ h.pc = "create"
    /\ req' = Gone(h)
    /\ response' = Response("create", "ServerError", Null)
    /\ UNCHANGED <<applications, leases, tenants, now, payment, properties, form>>

(* ------------------------- updateApplicationStatus ---------------------- *)
\* the checks with the application looked up before the status value is validated
updateApplicationStatusChecksLookupFirst(id, status) ==
    IF id \notin AppIds
    THEN "ApplicationNotFound"
    ELSE IF status = Absent \/ status \notin validStatuses
    THEN "InvalidStatus"
    ELSE LET application == applications[id] IN
         IF application.leaseId # Null /\ status = "Approved"
         THEN "LeaseAlreadyExists"
         ELSE IF application.status = "Approved" /\ status # "Approved"
         THEN "CannotModifyApproved"
         ELSE IF status = "Approved" THEN "findLease" ELSE "update"



\* the checks with a guard that lets only a Pending application change its status
updateApplicationStatusChecksPendingOnly(id, status) ==
    IF status = Absent \/ status \notin validStatuses
    THEN "InvalidStatus"
    ELSE IF id \notin AppIds
    THEN "ApplicationNotFound"
    ELSE LET application == applications[id] IN
         IF application.status # "Pending"
         THEN "CannotModifyApproved"
         ELSE IF application.leaseId # Null /\ status = "Approved"
         THEN "LeaseAlreadyExists"
         ELSE IF status = "Approved" THEN "findLease" ELSE "update"

\* the checks without the guard on an application that already has a lease
updateApplicationStatusChecksNoLeaseGuard(id, status) ==
    IF status = Absent \/ status \notin validStatuses
    THEN "InvalidStatus"
    ELSE IF id \notin AppIds
    THEN "ApplicationNotFound"
    ELSE LET application == applications[id] IN
         IF application.status = "Approved" /\ status # "Approved"
         THEN "CannotModifyApproved"
         ELSE IF status = "Approved" THEN "findLease" ELSE "update"

\* the outcome of the checks made on the row read by findUnique, in the order of
\* the code: an error, or the await the handler goes on to
updateApplicationStatusChecks(id, status) ==
    IF status = Absent \/ status \notin validStatuses
    THEN "InvalidStatus"
    ELSE IF id \notin AppIds
    THEN "ApplicationNotFound"
    ELSE LET application == applications[id] IN
         IF application.status = "Approved" /\ status # "Approved"
         THEN "CannotModifyApproved"
         ELSE IF application.leaseId # Null /\ status = "Approved"
         THEN "LeaseAlreadyExists"
         ELSE IF status = "Approved" THEN "findLease" ELSE "update"

\* the request arrives and runs up to its second await: the status value is
\* validated, the application is read, the guards on the row that was read
updateApplicationStatusFind(id, status) ==
    /\ response = NoResponse
    /\ BagCardinality(req) < MaxReqs
    /\ LET outcome == updateApplicationStatusChecks(id, status) IN
         IF outcome \in {"findLease", "update"}
         THEN /\ outcome = "findLease" => Len(leases) + PendingApprovals < MaxLeases
              /\ req' = Started(
                    [op |-> "update", pc |-> outcome, propertyId |-> Null,
                     tenantCognitoId |-> Absent, status |-> status, id |-> id,
                     application |-> applications[id].status,
                     property |-> properties[applications[id].propertyId]])
              /\ response' = NoResponse
         ELSE /\ req' = req
              /\ response' = Response("update", outcome, id)
    /\ UNCHANGED <<applications, leases, tenants, now, payment, properties, form>>

\* the rows prisma.lease.findFirst may return for the active-lease check
existingLease(propertyId, tenantCognitoId) ==
    {l \in LeaseIds : /\ leases[l].propertyId = propertyId
                      /\ leases[l].tenantCognitoId = tenantCognitoId
                      /\ leases[l].endDate >= now}

\* an approval without the active-lease check
updateApplicationStatusFindLeaseSkipped(h) ==
    /\ response = NoResponse
    /\ h \in InFlight /\ h.pc = "findLease"
    /\ req' = Moved(h, [h EXCEPT !.pc = "transaction"])
    /\ response' = NoResponse
    /\ UNCHANGED <<applications, leases, tenants, now, payment, properties, form>>

\* an active-lease check made after the status was written
updateApplicationStatusFindLeaseAfterWrite(h) ==
    /\ response = NoResponse
    /\ h \in InFlight /\ h.pc = "findLease"
    /\ applications' = [applications EXCEPT ![h.id].status = h.status]
    /\ LET application == applications[h.id] IN
       IF existingLease(application.propertyId, application.tenantCognitoId) # {}
       THEN /\ req' = Gone(h)
            /\ response' = Response("update", "ActiveLeaseExists", h.id)
       ELSE /\ req' = Moved(h, [h EXCEPT !.pc = "transaction"])
            /\ response' = NoResponse
    /\ UNCHANGED <<leases, tenants, now, payment, properties, form>>

\* the active-lease check
updateApplicationStatusFindLease(h) ==
    /\ response = NoResponse
    /\ h \in InFlight /\ h.pc = "findLease"
    /\ LET application == applications[h.id] IN
       IF existingLease(application.propertyId, application.tenantCognitoId) # {}
       THEN /\ req' = Gone(h)
            /\ response' = Response("update", "ActiveLeaseExists", h.id)
       ELSE /\ req' = Moved(h, [h EXCEPT !.pc = "transaction"])
            /\ response' = NoResponse
    /\ UNCHANGED <<applications, leases, tenants, now, payment, properties, form>>

\* the row prisma.lease.create inserts; application is the row findUnique returned
newLease(application) ==
    [startDate |-> now,
     rent |-> application.property.pricePerMonth,
     deposit |-> application.property.securityDeposit,
     endDate |-> now + LeaseTerm,
     propertyId |-> application.propertyId,
     tenantCognitoId |-> application.tenantCognitoId]

\* a transaction without the updateMany
denyNoOther(apps, id, propertyId) == apps


\* an updateMany that ignores the property: every other pending application is denied
denyPendingEverywhere(apps, id, propertyId) ==
    [a \in DOMAIN apps |->
        IF a # id /\ apps[a].status = "Pending"
        THEN [apps[a] EXCEPT !.status = "Denied"]
        ELSE apps[a]]

\* prisma.application.updateMany: deny the other pending applications of the property
denyOtherPending(apps, id, propertyId) ==
    [a \in DOMAIN apps |->
        IF /\ apps[a].propertyId = propertyId
           /\ a # id
           /\ apps[a].status = "Pending"
        THEN [apps[a] EXCEPT !.status = "Denied"]
        ELSE apps[a]]


\* a transaction without the property.update that connects the tenant
updateApplicationStatusTransactionNoConnect(h) ==
    /\ response = NoResponse
    /\ h \in InFlight /\ h.pc = "transaction"
    /\ LET application == applications[h.id]
       IN /\ leases' = Append(leases, newLease(
                [propertyId |-> application.propertyId,
                 tenantCognitoId |-> application.tenantCognitoId,
                 property |-> h.property]))
          /\ applications' = denyOtherPending(
                [applications EXCEPT ![h.id].status = h.status,
                                     ![h.id].leaseId = Len(leases) + 1],
                h.id, application.propertyId)
    /\ req' = Moved(h, [h EXCEPT !.pc = "respond"])
    /\ response' = NoResponse
    /\ UNCHANGED <<tenants, now, payment, properties, form>>


\* a transaction that also ends the earlier leases of the property
updateApplicationStatusTransactionEndsLeases(h) ==
    /\ response = NoResponse
    /\ h \in InFlight /\ h.pc = "transaction"
    /\ LET application == applications[h.id]
       IN /\ leases' = Append(
                [l \in LeaseIds |->
                    IF leases[l].propertyId = application.propertyId
                    THEN [leases[l] EXCEPT !.endDate = now]
                    ELSE leases[l]],
                newLease([propertyId |-> application.propertyId,
                          tenantCognitoId |-> application.tenantCognitoId,
                          property |-> h.property]))
          /\ tenants' = tenants \cup {<<application.propertyId, application.tenantCognitoId>>}
          /\ applications' = denyOtherPending(
                [applications EXCEPT ![h.id].status = h.status,
                                     ![h.id].leaseId = Len(leases) + 1],
                h.id, application.propertyId)
    /\ req' = Moved(h, [h EXCEPT !.pc = "respond"])
    /\ response' = NoResponse
    /\ UNCHANGED <<now, payment, properties, form>>

\* a transaction whose application.update selects by tenant and property, not by id
updateApplicationStatusTransactionLinksPair(h) ==
    /\ response = NoResponse
    /\ h \in InFlight /\ h.pc = "transaction"
    /\ LET application == applications[h.id]
       IN /\ leases' = Append(leases, newLease(
                [propertyId |-> application.propertyId,
                 tenantCognitoId |-> application.tenantCognitoId,
                 property |-> h.property]))
          /\ tenants' = tenants \cup {<<application.propertyId, application.tenantCognitoId>>}
          /\ applications' =
                [a \in AppIds |->
                    IF /\ applications[a].propertyId = application.propertyId
                       /\ applications[a].tenantCognitoId = application.tenantCognitoId
                    THEN [applications[a] EXCEPT !.status = h.status,
                                                 !.leaseId = Len(leases) + 1]
                    ELSE IF /\ applications[a].propertyId = application.propertyId
                            /\ applications[a].status = "Pending"
                    THEN [applications[a] EXCEPT !.status = "Denied"]
                    ELSE applications[a]]
    /\ req' = Moved(h, [h EXCEPT !.pc = "respond"])
    /\ response' = NoResponse
    /\ UNCHANGED <<now, payment, properties, form>>

\* prisma.$transaction commits: lease, membership, application, auto-deny
updateApplicationStatusTransaction(h) ==
    /\ response = NoResponse
    /\ h \in InFlight /\ h.pc = "transaction"
    /\ LET application == applications[h.id]
       IN /\ leases' = Append(leases, newLease(
                [propertyId |-> application.propertyId,
                 tenantCognitoId |-> application.tenantCognitoId,
                 property |-> h.property]))
          /\ tenants' = tenants \cup {<<application.propertyId, application.tenantCognitoId>>}
          /\ applications' = denyOtherPending(
                [applications EXCEPT ![h.id].status = h.status,
                                     ![h.id].leaseId = Len(leases) + 1],
                h.id, application.propertyId)
    /\ req' = Moved(h, [h EXCEPT !.pc = "respond"])
    /\ response' = NoResponse
    /\ UNCHANGED <<now, payment, properties, form>>

\* the writes made one by one, without prisma.$transaction: the lease is created,
\* the next write throws, and the 500 leaves the lease behind
updateApplicationStatusPartialFail(h) ==
    /\ response = NoResponse
    /\ h \in InFlight /\ h.pc = "transaction"
    /\ leases' = Append(leases, newLease(
          [propertyId |-> applications[h.id].propertyId,
           tenantCognitoId |-> applications[h.id].tenantCognitoId,
           property |-> h.property]))
    /\ req' = Gone(h)
    /\ response' = Response("update", "ServerError", h.id)
    /\ UNCHANGED <<applications, tenants, now, payment, properties, form>>

\* prisma.$transaction throws (maxWait or timeout exceeded): rolled back, 500
updateApplicationStatusTransactionFail(h) ==
    /\ response = NoResponse
    /\ h \in InFlight /\ h.pc = "transaction"
    /\ req' = Gone(h)
    /\ response' = Response("update", "ServerError", h.id)
    /\ UNCHANGED <<applications, leases, tenants, now, payment, properties, form>>


\* a status update that also denies the other pending applications of the property
updateApplicationStatusUpdateAndDeny(h) ==
    /\ response = NoResponse
    /\ h \in InFlight /\ h.pc = "update"
    /\ applications' = denyOtherPending(
          [applications EXCEPT ![h.id].status = h.status],
          h.id, applications[h.id].propertyId)
    /\ req' = Moved(h, [h EXCEPT !.pc = "respond"])
    /\ response' = NoResponse
    /\ UNCHANGED <<leases, tenants, now, payment, properties, form>>

\* prisma.application.update of the status alone (Denied, or back to Pending)
updateApplicationStatusUpdate(h) ==
    /\ response = NoResponse
    /\ h \in InFlight /\ h.pc = "update"
    /\ applications' = [applications EXCEPT ![h.id].status = h.status]
    /\ req' = Moved(h, [h EXCEPT !.pc = "respond"])
    /\ response' = NoResponse
    /\ UNCHANGED <<leases, tenants, now, payment, properties, form>>


\* a handler that ends without writing a response
updateApplicationStatusRespondNothing(h) ==
    /\ response = NoResponse
    /\ h \in InFlight /\ h.pc = "respond"
    /\ req' = Gone(h)
    /\ response' = NoResponse
    /\ UNCHANGED <<applications, leases, tenants, now, payment, properties, form>>

\* the final findUnique and res.json
updateApplicationStatusRespond(h) ==
    /\ response = NoResponse
    /\ h \in InFlight /\ h.pc = "respond"
    /\ req' = Gone(h)
    /\ response' = Response("update", "Updated", h.id)
    /\ UNCHANGED <<applications, leases, tenants, now, payment, properties, form>>

\* a store access outside the transaction throws (the active-lease lookup, the
\* status-only update, the final findUnique): the catch block answers 500; what
\* the handler has committed before stays committed
updateApplicationStatusCatch(h) ==
    /\ response = NoResponse
    /\ h \in InFlight /\ h.pc \in {"findLease", "update", "respond"}
    /\ req' = Gone(h)
    /\ response' = Response("update", "ServerError", h.id)
    /\ UNCHANGED <<applications, leases, tenants, now, payment, properties, form>>

(* ---------------------------- listApplications -------------------------- *)
\* the locals of a listApplications handler: the selector and the rows findMany returned
ListHandler(userId, userType, applicationsFound) ==
    [op |-> "list", pc |-> "leases", userId |-> userId, userType |-> userType,
     applications |-> applicationsFound]

\* the response of listApplications: formattedApplications
ListResponse(formattedApplications) ==
    [op |-> "list", resp |-> "Listed", id |-> Null, rows |-> formattedApplications]

\* the ids of the rows prisma.application.findMany({where: whereClause}) returns
whereClause(userId, userType) ==
    IF userId # Absent /\ userType # Absent
    THEN IF userType = "tenant"
         THEN {a \in AppIds : applications[a].tenantCognitoId = userId}
         ELSE IF userType = "manager"
         THEN {a \in AppIds : managerCognitoId(applications[a].propertyId) = userId}
         ELSE AppIds
    ELSE AppIds

\* the request arrives and findMany reads the applications selected
listApplicationsFindMany(userId, userType) ==
    /\ response = NoResponse
    /\ BagCardinality(req) < MaxReqs
    /\ req' = Started(ListHandler(userId, userType,
                  {[id |-> a, status |-> applications[a].status,
                    leaseId |-> applications[a].leaseId,
                    propertyId |-> applications[a].propertyId,
                    tenantCognitoId |-> applications[a].tenantCognitoId] :
                        a \in whereClause(userId, userType)}))
    /\ response' = NoResponse
    /\ UNCHANGED <<applications, leases, tenants, now, payment, properties, form>>


\* a lease lookup ordered by startDate ascending: the earliest lease of the pair
listLeaseEarliest(app) ==
    LET found == {l \in LeaseIds : /\ leases[l].tenantCognitoId = app.tenantCognitoId
                                    /\ leases[l].propertyId = app.propertyId}
    IN IF found = {}
       THEN {Null}
       ELSE {l \in found : \A m \in found : leases[l].startDate <= leases[m].startDate}

\* a lease lookup by property alone: the latest lease of the property, of any tenant
listLeaseOfProperty(app) ==
    LET found == {l \in LeaseIds : leases[l].propertyId = app.propertyId}
    IN IF found = {}
       THEN {Null}
       ELSE {l \in found : \A m \in found : leases[m].startDate <= leases[l].startDate}

\* the rows prisma.lease.findFirst may return for an application: of the leases of
\* its tenant and property, one with the latest startDate (orderBy startDate desc);
\* Null when there is none
listLease(app) ==
    LET found == {l \in LeaseIds : /\ leases[l].tenantCognitoId = app.tenantCognitoId
                                    /\ leases[l].propertyId = app.propertyId}
    IN IF found = {}
       THEN {Null}
       ELSE {l \in found : \A m \in found : leases[m].startDate <= leases[l].startDate}

\* Promise.all of the lease lookups, and res.json(formattedApplications).  The
\* nextPaymentDate attached to a lease is calculateNextPaymentDate below
listApplicationsRespond(h) ==
    /\ response = NoResponse
    /\ h \in InFlight /\ h.pc = "leases"
    /\ \E lease \in [h.applications -> LeaseIds \cup {Null}] :
         /\ \A app \in h.applications : lease[app] \in listLease(app)
         /\ response' = ListResponse({[id |-> app.id, status |-> app.status,
                                       leaseId |-> app.leaseId, lease |-> lease[app]] :
                                          app \in h.applications})
    /\ req' = Gone(h)
    /\ UNCHANGED <<applications, leases, tenants, now, payment, properties, form>>

\* findMany or a lease lookup throws: the catch block answers 500
listApplicationsCatch(h) ==
    /\ response = NoResponse
    /\ h \in InFlight /\ h.pc = "leases"
    /\ req' = Gone(h)
    /\ response' = Response("list", "ServerError", Null)
    /\ UNCHANGED <<applications, leases, tenants, now, payment, properties, form>>

(* ------------------------ ApplicationForm, client ----------------------- *)
\* steps[step - 1].fields validate against applicationSchema (form.trigger): the
\* optional fields and the switches always do.  z.string().email() is taken to
\* accept what emailRegex accepts; the two agree on the addresses tried
stepValid(step, values) ==
    CASE step = 1 -> /\ Len(values.firstName) >= 1 /\ Len(values.lastName) >= 1
                     /\ emailRegex(values.email)
                     /\ Len(values.phone) >= 10
                     /\ Len(values.dateOfBirth) >= 1
      [] step = 2 -> /\ Len(values.currentAddress) >= 1 /\ Len(values.currentCity) >= 1
                     /\ Len(values.currentState) >= 1
                     /\ Len(values.currentZip) >= 5
                     /\ Len(values.moveInDate) >= 1
      [] step = 3 -> /\ values.employmentStatus \in
                            {"employed", "self-employed", "unemployed", "student", "retired"}
                     /\ Len(values.annualIncome) >= 1
      [] step = 4 -> /\ Len(values.emergencyContactName) >= 1
                     /\ Len(values.emergencyContactPhone) >= 10
                     /\ Len(values.emergencyContactRelationship) >= 1
      [] step = 5 -> Len(values.numberOfOccupants) >= 1
      [] OTHER -> TRUE

\* zodResolver(applicationSchema): the whole form validates
schemaValid(values) == \A step \in 1..StepsLength : stepValid(step, values)

\* the value of a decimal digit, -1 for any other character
digit(c) ==
    CASE c = "0" -> 0 [] c = "1" -> 1 [] c = "2" -> 2 [] c = "3" -> 3 [] c = "4" -> 4
      [] c = "5" -> 5 [] c = "6" -> 6 [] c = "7" -> 7 [] c = "8" -> 8 [] c = "9" -> 9
      [] OTHER -> -1

\* parseInt / parseFloat of a text without sign or point: the number its leading
\* digits spell, NaN when it does not start with a digit
RECURSIVE parseDigits(_, _, _)
parseDigits(text, i, n) ==
    IF i > Len(text) \/ digit(text[i]) < 0
    THEN n
    ELSE parseDigits(text, i + 1, 10 * n + digit(text[i]))
parseInt(text) ==
    IF Len(text) = 0 \/ digit(text[1]) < 0 THEN "NaN" ELSE parseDigits(text, 1, 0)

\* the argument onSubmit passes to the createApplication mutation:
\* {propertyId, tenantId, ...data, annualIncome: parseFloat(..), numberOfOccupants: parseInt(..)}
payload(propertyId, tenantId, data) ==
    [k \in {"propertyId", "tenantId"} \cup DOMAIN data |->
        CASE k = "propertyId" -> propertyId
          [] k = "tenantId" -> tenantId
          [] k = "annualIncome" -> parseInt(data.annualIncome)
          [] k = "numberOfOccupants" -> parseInt(data.numberOfOccupants)
          [] OTHER -> data[k]]

\* the tenant types into the fields
onChange(values) ==
    /\ form.values # values
    /\ form' = [form EXCEPT !.values = values]
    /\ UNCHANGED <<applications, leases, tenants, now, req, response, payment, properties>>

\* Next is clicked (the button is rendered while currentStep < steps.length):
\* handleNext starts with the currentStep of the render it was created in and
\* waits for form.trigger on the fields of that step
handleNext ==
    /\ form.currentStep < StepsLength
    /\ BagCardinality(form.calls) < MaxCalls
    /\ form' = [form EXCEPT !.calls = @ (+) SetToBag(
                    {[currentStep |-> form.currentStep,
                      isValid |-> stepValid(form.currentStep, form.values)]})]
    /\ UNCHANGED <<applications, leases, tenants, now, req, response, payment, properties>>

\* form.trigger resolves and handleNext goes on:
\* if (isValid && currentStep < steps.length) setCurrentStep(currentStep + 1),
\* currentStep being the value the call started with
handleNextResume(call) ==
    /\ call \in BagToSet(form.calls)
    /\ form' = [form EXCEPT
                   !.calls = @ (-) SetToBag({call}),
                   !.currentStep = IF call.isValid /\ call.currentStep < StepsLength
                                   THEN call.currentStep + 1
                                   ELSE @]
    /\ UNCHANGED <<applications, leases, tenants, now, req, response, payment, properties>>

\* Previous is clicked (the button is disabled when currentStep = 1):
\* if (currentStep > 1) setCurrentStep(currentStep - 1)
handlePrevious ==
    /\ form.currentStep # 1
    /\ form' = [form EXCEPT !.currentStep = IF @ > 1 THEN @ - 1 ELSE @]
    /\ UNCHANGED <<applications, leases, tenants, now, req, response, payment, properties>>

\* Submit is clicked on the last step: form.handleSubmit validates the whole
\* form and calls onSubmit(data), which hands the payload to the mutation
onSubmit ==
    /\ form.currentStep = StepsLength
    /\ ~form.isLoading
    /\ schemaValid(form.values)
    /\ form' = [form EXCEPT
                   !.isLoading = TRUE,
                   !.payload = payload(FormPropertyId, FormTenantId, form.values)]
    /\ UNCHANGED <<applications, leases, tenants, now, req, response, payment, properties>>

\* the mutation settles: a toast is shown, the form can be submitted again
onSubmitSettled ==
    /\ form.isLoading
    /\ form' = [form EXCEPT !.isLoading = FALSE]
    /\ UNCHANGED <<applications, leases, tenants, now, req, response, payment, properties>>

\* the form alone: the tenant types, clicks Next, Previous and Submit in any
\* order, also while a call of handleNext waits for the validation
NextForm ==
    \/ \E values \in FormValues : onChange(values)
    \/ handleNext
    \/ \E call \in BagToSet(form.calls) : handleNextResume(call)
    \/ handlePrevious
    \/ onSubmit
    \/ onSubmitSettled

SpecForm == Init /\ [][NextForm]_vars


\* const {...} = req.body of createApplication, read from the JSON object that
\* was posted: a key the object does not have gives undefined
reqBody(object) ==
    Body(IF "propertyId" \in DOMAIN object THEN object.propertyId ELSE Null,
         IF "tenantCognitoId" \in DOMAIN object THEN object.tenantCognitoId ELSE Absent,
         IF "name" \in DOMAIN object THEN object.name ELSE Absent,
         IF "email" \in DOMAIN object THEN object.email ELSE <<>>,
         IF "phoneNumber" \in DOMAIN object THEN object.phoneNumber ELSE Absent,
         IF "status" \in DOMAIN object THEN object.status ELSE Absent)

(* ------------------------ calculateNextPaymentDate ---------------------- *)
\* a date: its month, counted from January of FirstYear, and its day of the month
Date(month, day) == [month |-> month, day |-> day]

\* the days of a month of the Gregorian calendar
DaysInMonth(month) ==
    LET year == FirstYear + (month \div 12)
        m == month % 12
        leap == year % 4 = 0 /\ (year % 100 # 0 \/ year % 400 = 0)
    IN IF m = 1 THEN (IF leap THEN 29 ELSE 28)
       ELSE IF m \in {3, 5, 8, 10} THEN 30
       ELSE 31

\* Date.prototype.setMonth: the day of the month is kept, and a day the month does
\* not have overflows into the next month
setMonth(date, month) ==
    IF date.day <= DaysInMonth(month)
    THEN Date(month, date.day)
    ELSE Date(month + 1, date.day - DaysInMonth(month))

\* date1 <= date2
NotAfter(date1, date2) ==
    \/ date1.month < date2.month
    \/ date1.month = date2.month /\ date1.day <= date2.day

\* while (nextPaymentDate <= today) nextPaymentDate.setMonth(getMonth() + 1)
RECURSIVE calculateNextPaymentDate(_, _)
calculateNextPaymentDate(nextPaymentDate, today) ==
    IF NotAfter(nextPaymentDate, today)
    THEN calculateNextPaymentDate(setMonth(nextPaymentDate, nextPaymentDate.month + 1), today)
    ELSE nextPaymentDate

\* the dates of the months 0..last
Dates(last) ==
    {d \in {Date(month, day) : month \in 0..last, day \in 1..31} :
        d.day <= DaysInMonth(d.month)}

\* the function returns
calculateNextPaymentDateReturn ==
    /\ payment.nextPaymentDate = NoDate
    /\ payment.startDate # NoDate
    /\ payment' = [payment EXCEPT
                     !.nextPaymentDate = calculateNextPaymentDate(payment.startDate, payment.today)]
    /\ UNCHANGED <<applications, leases, tenants, now, req, response, properties, form>>

(* ------------------------------- clock --------------------------------- *)
\* time passes
Tick ==
    /\ response = NoResponse
    /\ now < MaxNow
    /\ now' = now + 1
    /\ UNCHANGED <<applications, leases, tenants, req, response, payment, properties, form>>

\* a manager changes the price and the deposit of a property (the property
\* controller): the row is written at any moment, also while a request on an
\* application for this property is suspended at an await
updateProperty(propertyId, row) ==
    /\ response = NoResponse
    /\ properties[propertyId] # row
    /\ properties' = [properties EXCEPT ![propertyId] = row]
    /\ UNCHANGED <<applications, leases, tenants, now, req, response, payment, form>>

(* ----------------------------- the responses ---------------------------- *)
\* res.json / res.status(..).json: the response computed by the last step is on the wire
Sent ==
    /\ response # NoResponse
    /\ response' = NoResponse
    /\ UNCHANGED <<applications, leases, tenants, now, req, payment, properties, form>>

(* ---------------------------- specifications ---------------------------- *)
\* the event loop runs one handler up to its next await, any number of requests
\* being in flight, or the clock advances; a response is written out before the
\* next handler runs
Next ==
    \/ \E body \in Bodies : createApplicationCheck(body)
    \/ \E h \in InFlight : createApplicationCreate(h)
    \/ \E h \in InFlight : createApplicationCatch(h)
    \/ \E id \in IdInputs, status \in UpdateStatusInputs :
         updateApplicationStatusFind(id, status)
    \/ \E h \in InFlight : updateApplicationStatusFindLease(h)
    \/ \E h \in InFlight : updateApplicationStatusTransaction(h)
    \/ \E h \in InFlight : updateApplicationStatusTransactionFail(h)
    \/ \E h \in InFlight : updateApplicationStatusUpdate(h)
    \/ \E h \in InFlight : updateApplicationStatusRespond(h)
    \/ \E h \in InFlight : updateApplicationStatusCatch(h)
    \/ Tick
    \/ Sent

Spec == Init /\ [][Next]_vars

\* sequential execution: a request arrives only after the previous one was
\* answered.  listApplications, which writes nothing, is run here
NextSeq ==
    \/ \E body \in Bodies : req = EmptyBag /\ createApplicationCheck(body)
    \/ \E h \in InFlight : createApplicationCreate(h)
    \/ \E h \in InFlight : createApplicationCatch(h)
    \/ \E id \in IdInputs, status \in UpdateStatusInputs :
         req = EmptyBag /\ updateApplicationStatusFind(id, status)
    \/ \E h \in InFlight : updateApplicationStatusFindLease(h)
    \/ \E h \in InFlight : updateApplicationStatusTransaction(h)
    \/ \E h \in InFlight : updateApplicationStatusTransactionFail(h)
    \/ \E h \in InFlight : updateApplicationStatusUpdate(h)
    \/ \E h \in InFlight : updateApplicationStatusRespond(h)
    \/ \E h \in InFlight : updateApplicationStatusCatch(h)
    \/ \E userId \in UserIdInputs, userType \in UserTypeInputs :
         req = EmptyBag /\ listApplicationsFindMany(userId, userType)
    \/ \E h \in InFlight : listApplicationsRespond(h)
    \/ \E h \in InFlight : listApplicationsCatch(h)
    \/ Tick
    \/ Sent

SpecSeq == Init /\ [][NextSeq]_vars

\* sequential submissions and status updates while the Property rows change
NextRent ==
    \/ \E body \in Bodies : req = EmptyBag /\ createApplicationCheck(body)
    \/ \E h \in InFlight : createApplicationCreate(h)
    \/ \E h \in InFlight : createApplicationCatch(h)
    \/ \E id \in IdInputs, status \in UpdateStatusInputs :
         req = EmptyBag /\ updateApplicationStatusFind(id, status)
    \/ \E h \in InFlight : updateApplicationStatusFindLease(h)
    \/ \E h \in InFlight : updateApplicationStatusTransaction(h)
    \/ \E h \in InFlight : updateApplicationStatusTransactionFail(h)
    \/ \E h \in InFlight : updateApplicationStatusUpdate(h)
    \/ \E h \in InFlight : updateApplicationStatusRespond(h)
    \/ \E h \in InFlight : updateApplicationStatusCatch(h)
    \/ \E propertyId \in Properties, row \in PropertyRows : updateProperty(propertyId, row)
    \/ Tick
    \/ Sent

SpecRent == Init /\ [][NextRent]_vars


\* a step of a handler of updateApplicationStatus that is suspended at an await:
\* the store answers the access, or the access throws
updateApplicationStatusStep ==
    \E h \in InFlight :
        \/ updateApplicationStatusFindLease(h)
        \/ updateApplicationStatusTransaction(h)
        \/ updateApplicationStatusTransactionFail(h)
        \/ updateApplicationStatusUpdate(h)
        \/ updateApplicationStatusRespond(h)
        \/ updateApplicationStatusCatch(h)

\* sequential execution in which every store access is answered or throws (the
\* transaction within maxWait and timeout), the event loop runs the continuation,
\* and a response that was computed is written out
SpecLive == Init /\ [][NextSeq]_vars /\ WF_vars(updateApplicationStatusStep) /\ WF_vars(Sent)

\* calculateNextPaymentDate alone: called with any lease startDate and any clock
InitPay ==
    /\ applications = <<>>
    /\ leases = <<>>
    /\ tenants = {}
    /\ now = 0
    /\ req = EmptyBag
    /\ response = NoResponse
    /\ properties = [p \in Properties |-> Listed]
    /\ form = InitForm
    /\ payment \in {[startDate |-> startDate, today |-> today, nextPaymentDate |-> NoDate] :
                       startDate \in Dates(MaxStartMonth), today \in Dates(MaxTodayMonth)}

NextPay == calculateNextPaymentDateReturn

SpecPay == InitPay /\ [][NextPay]_vars

TypeOK ==
    /\ now \in 0..MaxNow
    /\ Len(applications) <= MaxApps
    /\ Len(leases) <= MaxLeases
    /\ BagCardinality(req) <= MaxReqs
    /\ \A a \in AppIds : /\ applications[a].status \in validStatuses
                         /\ applications[a].leaseId \in {Null} \cup LeaseIds
                         /\ applications[a].propertyId \in Properties
                         /\ applications[a].tenantCognitoId \in Tenants
    /\ tenants \subseteq Properties \X Tenants
    /\ properties \in [Properties -> PropertyRows]
    /\ form.currentStep \in 1..StepsLength
    /\ form.values \in FormValues
    /\ BagCardinality(form.calls) <= MaxCalls
    /\ \A l \in LeaseIds : /\ leases[l].endDate = leases[l].startDate + LeaseTerm
                           /\ leases[l].rent \in {row.pricePerMonth : row \in PropertyRows}
                           /\ leases[l].deposit \in {row.securityDeposit : row \in PropertyRows}

(* ------------------------------- claims -------------------------------- *)
\* the store: everything a request can write
store == <<applications, leases, tenants>>

\* C1 (P1, no premature lease): the application created by a submission that is
\* answered 201 has status Pending and no lease, whatever the payload carries.
C1_NoPrematureLease ==
    response.resp = "Created" =>
        /\ applications[response.id].status = "Pending"
        /\ applications[response.id].leaseId = Null

\* C2 (P2, lease only on approval): after any sequence of submissions and status
\* updates an application has a lease if and only if its status is Approved.
C2_LeaseIffApproved ==
    \A a \in AppIds :
        (applications[a].leaseId # Null) <=> (applications[a].status = "Approved")

\* C3 (P6, single active lease): in every reachable state, approvals in flight
\* included, a (tenant, property) pair has at most one lease with endDate >= now.
C3_SingleActiveLease ==
    \A p \in Properties, t \in Tenants : Cardinality(existingLease(p, t)) <= 1

\* the applications of a property that were approved by a status update (they hold a lease)
ApprovedOn(p) ==
    {a \in AppIds : /\ applications[a].propertyId = p
                    /\ applications[a].status = "Approved"
                    /\ applications[a].leaseId # Null}

\* C4 (one approved application per property): after any sequence of completed
\* calls a property has at most one application with status Approved.  Only the
\* applications approved through updateApplicationStatus are counted, so that the
\* property is decided by the approval path alone and not by what C1 lets a
\* submission store.
C4_OneApprovedPerProperty ==
    req = EmptyBag => \A p \in Properties : Cardinality(ApprovedOn(p)) <= 1

\* a handler g about to commit its approval has lost a race: it read its
\* application as Pending, and since then a rival approval h of another
\* application of the same property, also read as Pending, has committed (it
\* denied g's application) and is still to answer
RaceLost(g) ==
    /\ g.pc = "transaction"
    /\ g.application = "Pending"
    /\ applications[g.id].status = "Denied"
    /\ \E h \in InFlight :
         /\ h.pc = "respond" /\ h.status = "Approved" /\ h.application = "Pending"
         /\ h.id # g.id
         /\ applications[h.id].propertyId = applications[g.id].propertyId
         /\ applications[h.id].status = "Approved"
         /\ applications[h.id].leaseId # Null

\* this step creates a lease for the application of handler g
Commits(g) ==
    /\ Len(leases') = Len(leases) + 1
    /\ applications'[g.id].leaseId = Len(leases')
    /\ applications'[g.id].status = "Approved"

\* C5 (racing approvals): of two concurrent approvals of two different Pending
\* applications of one property, both read before either commits, at most one
\* commits; the loser creates no lease and does not end Approved.
C5_RacingApprovals ==
    [][\A g \in InFlight : RaceLost(g) => ~Commits(g)]_vars

\* C6 (P3, duplicate block), sequential execution: a well-formed submission for
\* (tenant, property) is answered 409 and creates nothing whenever a Pending or
\* Approved application of the pair exists; when there is none it is accepted,
\* and the application its 201 creates is Pending.
C6_DuplicateBlock ==
    [][/\ \A body \in WellFormed :
            createApplicationCheck(body) =>
                IF existingApplication(body.propertyId, body.tenantCognitoId) # {}
                THEN StatusCode(response'.resp) = 409 /\ store' = store
                ELSE response' = NoResponse /\ req' # req
       /\ \A h \in InFlight :
            createApplicationCreate(h) =>
                /\ response'.resp = "Created"
                /\ Len(applications') = Len(applications) + 1
                /\ applications'[Len(applications')].status = "Pending"]_vars

\* C7 (I2): after any sequence of completed calls a (tenant, property) pair has
\* at most one application whose status is Pending or Approved.
C7_OneActivePerPair ==
    req = EmptyBag =>
        \A p \in Properties, t \in Tenants : Cardinality(existingApplication(p, t)) <= 1

\* C8 (P4, terminal approval): a status update of an Approved application, to any
\* of Pending, Denied, Approved, is answered 400 CannotModifyApproved and changes
\* nothing.  The applications taken are those approved through
\* updateApplicationStatus (they hold their lease).
C8_TerminalApproval ==
    [][\A id \in IdInputs, status \in validStatuses :
          ( /\ id \in AppIds
            /\ applications[id].status = "Approved"
            /\ applications[id].leaseId # Null
            /\ updateApplicationStatusFind(id, status) )
          => /\ response'.resp = "CannotModifyApproved"
             /\ StatusCode(response'.resp) = 400
             /\ store' = store]_vars

\* C9 (I3, Approved is terminal): in every behaviour, once an application is
\* Approved it is Approved in every later state.
C9_ApprovedIsTerminal ==
    [][\A a \in AppIds :
          applications[a].status = "Approved" => applications'[a].status = "Approved"]_vars

\* C10 (I1 under concurrency): in every reachable state an application whose
\* leaseId is set has status Approved.
C10_LeaseImpliesApproved ==
    \A a \in AppIds : applications[a].leaseId # Null => applications[a].status = "Approved"

\* C11 (P5, auto-deny), sequential execution: when A and B are Pending
\* applications of one property, the transaction that approves A creates one
\* lease, for A's tenant and property, leaves A Approved with that lease as its
\* leaseId, and leaves B Denied with no lease; the 200 that follows is sent with
\* A Approved, holding a lease, and no application of the property Pending.
C11_AutoDeny ==
    [][/\ \A h \in InFlight : \A B \in AppIds :
            ( /\ h.pc = "transaction" /\ h.status = "Approved"
              /\ B # h.id
              /\ applications[B].propertyId = applications[h.id].propertyId
              /\ applications[h.id].status = "Pending"
              /\ applications[B].status = "Pending"
              /\ updateApplicationStatusTransaction(h) )
            => /\ applications'[h.id].status = "Approved"
               /\ Len(leases') = Len(leases) + 1
               /\ applications'[h.id].leaseId = Len(leases')
               /\ leases'[Len(leases')].propertyId = applications[h.id].propertyId
               /\ leases'[Len(leases')].tenantCognitoId = applications[h.id].tenantCognitoId
               /\ applications'[B].status = "Denied"
               /\ applications'[B].leaseId = Null
       /\ \A h \in InFlight :
            ( /\ h.pc = "respond" /\ h.status = "Approved"
              /\ updateApplicationStatusRespond(h) )
            => /\ response'.resp = "Updated"
               /\ applications'[h.id].status = "Approved"
               /\ applications'[h.id].leaseId \in LeaseIds
               /\ \A B \in AppIds :
                    (B # h.id /\ applications[B].propertyId = applications[h.id].propertyId)
                    => applications'[B].status # "Pending"]_vars

\* two tenants' applications of one property are Pending and the approval of one
\* of them is about to commit
C11_TwoPending ==
    \E h \in InFlight : \E B \in AppIds :
        /\ h.pc = "transaction" /\ h.status = "Approved"
        /\ B # h.id
        /\ applications[B].propertyId = applications[h.id].propertyId
        /\ applications[B].tenantCognitoId # applications[h.id].tenantCognitoId
        /\ applications[h.id].status = "Pending"
        /\ applications[B].status = "Pending"

CreateStep == response'.op = "create" \/ PendingCreates' # PendingCreates

\* C13 (no lease on submission): no step of createApplication, whatever its
\* outcome, changes the leases or a membership; the leases and the memberships
\* change only in the transaction of a status update to Approved, which adds one lease.
C13_NoLeaseOnSubmission ==
    [][/\ CreateStep => (leases' = leases /\ tenants' = tenants)
       /\ (leases' # leases \/ tenants' # tenants)
            => \E h \in InFlight :
                 /\ h.op = "update" /\ h.status = "Approved"
                 /\ updateApplicationStatusTransaction(h)
                 /\ Len(leases') = Len(leases) + 1
                 /\ SubSeq(leases', 1, Len(leases)) = leases]_vars

\* an application was created while a lease and a membership exist
C13_Submitted ==
    /\ response.resp = "Created"
    /\ Len(leases) = 1
    /\ tenants # {}

\* C14 (no dangling or orphan lease): in every reachable state, approvals in
\* flight included, every lease is the leaseId of exactly one application, that
\* application is Approved, and every leaseId that is set is a row of Lease.
C14_NoOrphanLease ==
    /\ \A l \in LeaseIds :
         /\ Cardinality({a \in AppIds : applications[a].leaseId = l}) = 1
         /\ \A a \in AppIds :
              applications[a].leaseId = l => applications[a].status = "Approved"
    /\ \A a \in AppIds :
         applications[a].leaseId # Null => applications[a].leaseId \in LeaseIds

\* the errors of the guards of updateApplicationStatus, in the order of the claim
GuardErrors ==
    <<"InvalidStatus", "ApplicationNotFound", "CannotModifyApproved",
      "LeaseAlreadyExists", "ActiveLeaseExists">>
GuardCodes == <<400, 404, 400, 409, 409>>

\* guard n of updateApplicationStatus(id, status) fails in the current state
GuardFails(n, id, status) ==
    CASE n = 1 -> status \notin validStatuses
      [] n = 2 -> id \notin AppIds
      [] n = 3 -> id \in AppIds /\ applications[id].status = "Approved" /\ status # "Approved"
      [] n = 4 -> id \in AppIds /\ applications[id].leaseId # Null /\ status = "Approved"
      [] n = 5 -> /\ id \in AppIds /\ status = "Approved"
                  /\ existingLease(applications[id].propertyId,
                                   applications[id].tenantCognitoId) # {}

\* the guards that fail
Failing(id, status) == {n \in 1..5 : GuardFails(n, id, status)}

\* the first of a set of guards
First(guards) == CHOOSE n \in guards : \A m \in guards : n <= m

C16_RejectionWritesNothing ==
    [][/\ (response' # response /\ StatusCode(response'.resp) \in {400, 404, 409})
            => store' = store
       /\ (\E h \in InFlight : h.pc = "findLease") => store' = store]_vars

\* an approval was rejected by the active-lease lookup
C16_Rejected ==
    /\ response.resp = "ActiveLeaseExists"
    /\ applications[response.id].status # "Approved"

\* C17 (tolerated duplicate-submission race): prisma.application.create does not
\* repeat the duplicate check: a handler that passed it inserts its row, with the
\* status it was given or Pending, also when the pair has got a Pending or
\* Approved application in the meantime.  So two concurrent submissions of one
\* tenant for one property, both past the check before either creates its row,
\* leave two Pending applications of the pair.
C17_CreateAfterCheck ==
    [][\A h \in InFlight :
          (h.pc = "create" /\ createApplicationCreate(h))
          => /\ response'.resp = "Created"
             /\ applications' = Append(applications,
                   [propertyId |-> h.propertyId, tenantCognitoId |-> h.tenantCognitoId,
                    status |-> createStatus(h.status), leaseId |-> Null])]_vars

\* the first of two concurrent submissions of a pair has just created its Pending
\* application; the second passed the duplicate check before and is about to create its own
C17_DoubleSubmission ==
    /\ response.resp = "Created" /\ response.id = 1 /\ Len(applications) = 1
    /\ applications[1].status = "Pending"
    /\ \E h \in InFlight :
         /\ h.pc = "create" /\ h.status = Absent
         /\ h.propertyId = applications[1].propertyId
         /\ h.tenantCognitoId = applications[1].tenantCognitoId

\* startDate + k calendar months, as Date.prototype.setMonth computes it
PlusMonths(startDate, k) == setMonth(startDate, startDate.month + k)

\* C18 (P7, next-payment determinism): calculateNextPaymentDate returns the
\* smallest date startDate + k months, k >= 0, that is after today, and startDate
\* itself when startDate is after today.
C18_NextPayment ==
    payment.nextPaymentDate # NoDate =>
        LET forms == {PlusMonths(payment.startDate, k) : k \in 0..(MaxTodayMonth + 2)}
            later == {d \in forms : ~NotAfter(d, payment.today)}
        IN /\ payment.nextPaymentDate \in later
           /\ \A d \in later : NotAfter(payment.nextPaymentDate, d)
           /\ ~NotAfter(payment.startDate, payment.today)
                => payment.nextPaymentDate = payment.startDate

\* the applications a selector selects: those of tenant userId, those of the
\* properties of manager userId, none without a selector
Selected(userId, userType) ==
    IF userId # Absent /\ userType = "tenant"
    THEN {a \in AppIds : applications[a].tenantCognitoId = userId}
    ELSE IF userId # Absent /\ userType = "manager"
    THEN {a \in AppIds : managerCognitoId(applications[a].propertyId) = userId}
    ELSE {}

\* C19 (listApplications selector): the applications returned are exactly those
\* the selector selects, none when nothing matches, and never one outside the
\* selection, also when the selector is absent or userType is neither tenant nor manager.
C19_ListSelector ==
    [][\A h \in InFlight :
          (h.op = "list" /\ listApplicationsRespond(h))
          => {row.id : row \in response'.rows} = Selected(h.userId, h.userType)]_vars

\* the leases of the tenant and property of application id that have not ended
ActiveLeases(id) ==
    existingLease(applications[id].propertyId, applications[id].tenantCognitoId)

C27_LeaseContents ==
    [][\A h \in InFlight :
         updateApplicationStatusTransaction(h) =>
             LET lease == leases'[Len(leases')]
             IN /\ lease.propertyId = applications[h.id].propertyId
                /\ lease.tenantCognitoId = applications[h.id].tenantCognitoId
                /\ lease.endDate = lease.startDate + LeaseTerm
                /\ lease.rent = properties[lease.propertyId].pricePerMonth
                /\ lease.deposit = properties[lease.propertyId].securityDeposit]_vars

MissingField(body) ==
    \/ body.propertyId = Null \/ body.tenantCognitoId = Absent \/ body.name = Absent
    \/ body.email = <<>> \/ body.phoneNumber = Absent

\* C22 (input errors precede store access): a submission with a missing required
\* field or a malformed email, and a status update whose status is not exactly
\* Pending, Approved or Denied, is answered 400 in the step in which it arrives,
\* whatever the store holds and whatever rows the ids of the request name: no
\* lookup decides the answer, no handler is left waiting for the store, and
\* nothing is written.
C22_InputErrorsFirst ==
    [][/\ \A body \in Bodies :
            ((MissingField(body) \/ ~emailRegex(body.email))
             /\ createApplicationCheck(body)) =>
                /\ response' = Response("create",
                       IF MissingField(body) THEN "MissingField" ELSE "InvalidEmail", Null)
                /\ StatusCode(response'.resp) = 400
                /\ req' = req
                /\ store' = store
       /\ \A id \in IdInputs, status \in UpdateStatusInputs \ validStatuses :
            updateApplicationStatusFind(id, status) =>
                /\ response' = Response("update", "InvalidStatus", id)
                /\ StatusCode(response'.resp) = 400
                /\ req' = req
                /\ store' = store]_vars

\* a submission with a malformed email was rejected while the store held an
\* application that the duplicate lookup finds
C22_InvalidEmailRejected ==
    /\ response = Response("create", "InvalidEmail", Null)
    /\ existingApplication(1, "T1") # {}

\* the errors of the checks of createApplication, in the order of the claim
CheckErrors ==
    <<{"MissingField"}, {"InvalidEmail"}, {"PropertyNotFound"}, {"TenantNotFound"},
      {"DuplicateApproved", "DuplicatePending"}>>
CheckCodes == <<400, 400, 404, 404, 409>>

\* check n of createApplication(body) fails in the current state
CheckFails(n, body) ==
    CASE n = 1 -> MissingField(body)
      [] n = 2 -> ~emailRegex(body.email)
      [] n = 3 -> body.propertyId \notin Properties
      [] n = 4 -> body.tenantCognitoId \notin Tenants
      [] n = 5 -> existingApplication(body.propertyId, body.tenantCognitoId) # {}

\* the checks that fail
FailingChecks(body) == {n \in 1..5 : CheckFails(n, body)}

\* C23 (submission check order), sequential execution: the response of a
\* submission is the error of the first failing check in the order MissingField
\* (400), InvalidEmail (400), PropertyNotFound (404), TenantNotFound (404),
\* duplicate (409), and then no row is created; a row is created only by a
\* submission all of whose checks passed, and they still pass when it is created.
C23_CheckOrder ==
    [][/\ \A body \in Bodies :
            createApplicationCheck(body) =>
                /\ applications' = applications
                /\ IF FailingChecks(body) # {}
                   THEN /\ response'.resp \in CheckErrors[First(FailingChecks(body))]
                        /\ StatusCode(response'.resp) = CheckCodes[First(FailingChecks(body))]
                        /\ req' = req
                   ELSE response' = NoResponse /\ req' # req
       /\ Len(applications') # Len(applications) =>
            \E h \in InFlight :
                /\ createApplicationCreate(h)
                /\ h.propertyId \in Properties
                /\ h.tenantCognitoId \in Tenants
                /\ existingApplication(h.propertyId, h.tenantCognitoId) = {}]_vars

\* one submission passed every check and created its row, the next one for the
\* same pair failed the last check only
C23_LastCheckFailed ==
    /\ response = Response("create", "DuplicatePending", Null)
    /\ Len(applications) = 1
    /\ applications[1].status = "Pending"

\* C24 (non-approval path frame), sequential execution: from its arrival to its
\* response an updateApplicationStatus(id, s) with s Denied or Pending writes
\* once, and that write changes the status of application id to s and nothing
\* else: its leaseId and the other fields, every other application, the leases
\* and the tenant memberships are as before.
C24_NonApprovalFrame ==
    [][/\ \A id \in IdInputs, status \in {"Denied", "Pending"} :
            updateApplicationStatusFind(id, status) => store' = store
       /\ \A h \in InFlight :
            (h.op = "update" /\ h.status \in {"Denied", "Pending"}) =>
                IF updateApplicationStatusUpdate(h)
                THEN /\ Len(applications') = Len(applications)
                     /\ applications'[h.id].status = h.status
                     /\ applications'[h.id].leaseId = applications[h.id].leaseId
                     /\ applications'[h.id].propertyId = applications[h.id].propertyId
                     /\ applications'[h.id].tenantCognitoId
                            = applications[h.id].tenantCognitoId
                     /\ \A a \in AppIds \ {h.id} : applications'[a] = applications[a]
                     /\ leases' = leases
                     /\ tenants' = tenants
                ELSE store' = store]_vars

\* application 1 was denied and the answer sent, while application 2 of the same
\* property is still Pending
C24_DeniedAlone ==
    /\ response = Response("update", "Updated", 1)
    /\ Len(applications) = 2
    /\ applications[1].status = "Denied"
    /\ applications[2].status = "Pending"
    /\ applications[2].propertyId = applications[1].propertyId

\* C25 (auto-deny frame): the transaction that approves application A sets to
\* Denied the status of exactly the other applications that are on A's property
\* and Pending when it commits; every other application (Denied or Approved on
\* A's property, or on another property) keeps all its fields, leaseId included.
C25_AutoDenyFrame ==
    [][\A h \in InFlight :
         updateApplicationStatusTransaction(h) =>
             /\ Len(applications') = Len(applications)
             /\ \A b \in AppIds \ {h.id} :
                  applications'[b] =
                      IF /\ applications[b].propertyId = applications[h.id].propertyId
                         /\ applications[b].status = "Pending"
                      THEN [applications[b] EXCEPT !.status = "Denied"]
                      ELSE applications[b]]_vars

\* an approval committed while a Pending application of another property exists
C25_OtherPropertyPending ==
    \E h \in InFlight :
        /\ h.op = "update" /\ h.pc = "respond" /\ h.status = "Approved"
        /\ applications[h.id].leaseId # Null
        /\ \E b \in AppIds :
             /\ applications[b].propertyId # applications[h.id].propertyId
             /\ applications[b].status = "Pending"

\* C26 (duplicate-guard reason): a submission for a pair that has an Approved
\* application is answered 'already approved', also when the pair has a Pending
\* application as well; 'already pending' is answered only when the pair has a
\* Pending application and no Approved one.
C26_DuplicateReason ==
    [][\A body \in WellFormed :
         createApplicationCheck(body) =>
             LET found == existingApplication(body.propertyId, body.tenantCognitoId)
                 approved == {a \in found : applications[a].status = "Approved"}
                 pending == {a \in found : applications[a].status = "Pending"}
             IN /\ approved # {} => response'.resp = "DuplicateApproved"
                /\ response'.resp = "DuplicatePending" =>
                       (pending # {} /\ approved = {})]_vars

\* the membership that approving application a adds
Membership(a) == <<applications[a].propertyId, applications[a].tenantCognitoId>>

\* C28 (tenant membership): the transaction of an approval adds the tenant of the
\* application to the tenants of its property, and leaves the memberships as they
\* are when the tenant is already one of them; no other step of any request
\* (submission, deny, re-open, list, rejection, failure) changes a membership.
C28_TenantMembership ==
    [][/\ \A h \in InFlight :
            updateApplicationStatusTransaction(h) =>
                /\ Membership(h.id) \in tenants'
                /\ tenants' \ {Membership(h.id)} = tenants \ {Membership(h.id)}
                /\ Membership(h.id) \in tenants => tenants' = tenants
       /\ tenants' # tenants =>
            \E h \in InFlight : updateApplicationStatusTransaction(h)]_vars

\* a second lease was issued to a tenant who was a tenant of the property already
C28_TenantAlreadyMember ==
    /\ Len(leases) = 2
    /\ leases[1].propertyId = leases[2].propertyId
    /\ leases[1].tenantCognitoId = leases[2].tenantCognitoId
    /\ tenants = {<<leases[1].propertyId, leases[1].tenantCognitoId>>}

\* C29 (re-opening a denied application), sequential execution: for an
\* application that is Denied and has no lease, an update to Pending passes the
\* guards, writes the status alone and is answered 200; an update to Approved
\* passes the first four guards, is rejected by the active-lease lookup exactly
\* when the pair has an active lease, and otherwise its transaction creates the
\* lease of the pair, links it to the application, sets it Approved and denies the
\* other Pending applications of the property.
C29_ReopenDenied ==
    [][/\ \A id \in AppIds, status \in {"Pending", "Approved"} :
            (/\ applications[id].status = "Denied"
             /\ applications[id].leaseId = Null
             /\ updateApplicationStatusFind(id, status)) =>
                /\ response' = NoResponse
                /\ store' = store
                /\ \E h \in BagToSet(req') :
                     /\ h.op = "update" /\ h.id = id /\ h.status = status
                     /\ h.application = "Denied"
                     /\ h.pc = IF status = "Approved" THEN "findLease" ELSE "update"
       /\ \A h \in InFlight :
            (h.op = "update" /\ h.application = "Denied") =>
                /\ (h.status = "Pending" /\ updateApplicationStatusUpdate(h)) =>
                     /\ applications' = [applications EXCEPT ![h.id].status = "Pending"]
                     /\ leases' = leases /\ tenants' = tenants
                /\ updateApplicationStatusFindLease(h) =>
                     IF \E l \in LeaseIds : /\ <<leases[l].propertyId,
                                                 leases[l].tenantCognitoId>> = Membership(h.id)
                                            /\ leases[l].endDate >= now
                     THEN response' = Response("update", "ActiveLeaseExists", h.id)
                     ELSE response' = NoResponse /\ req' # EmptyBag
                /\ updateApplicationStatusTransaction(h) =>
                     /\ Len(leases') = Len(leases) + 1
                     /\ <<leases'[Len(leases')].propertyId,
                          leases'[Len(leases')].tenantCognitoId>> = Membership(h.id)
                     /\ applications'[h.id].leaseId = Len(leases')
                     /\ applications'[h.id].status = "Approved"
                     /\ \A b \in AppIds \ {h.id} :
                          (/\ applications[b].propertyId = applications[h.id].propertyId
                           /\ applications[b].status = "Pending")
                              => applications'[b].status = "Denied"
                /\ updateApplicationStatusRespond(h) =>
                     response' = Response("update", "Updated", h.id)]_vars

\* a Denied application was approved: it has its lease, and the other application
\* of the property is Denied
C29_DeniedApproved ==
    \E h \in InFlight :
        /\ h.op = "update" /\ h.pc = "respond"
        /\ h.application = "Denied" /\ h.status = "Approved"
        /\ applications[h.id].status = "Approved"
        /\ applications[h.id].leaseId # Null
        /\ \E b \in AppIds \ {h.id} :
             /\ applications[b].propertyId = applications[h.id].propertyId
             /\ applications[b].status = "Denied"

\* a handler of updateApplicationStatus(id, ..) is suspended at an await
Waiting(id) == \E h \in InFlight : h.op = "update" /\ h.id = id

\* C30 (bounded response): when every store access is answered or throws, a
\* request of updateApplicationStatus that is waiting for the store is eventually
\* answered (200, a guard error or 500) and its handler ends; a handler writes a
\* response exactly in the step in which it ends, so a request gets one response.
C30_BoundedResponse ==
    /\ \A id \in IdInputs :
         Waiting(id) ~> (response.op = "update" /\ response.id = id /\ ~Waiting(id))
    /\ [][\A h \in InFlight :
            h.op = "update" =>
                IF h \in BagToSet(req') \/ Waiting(h.id)'
                THEN response' = NoResponse
                ELSE /\ response'.op = "update" /\ response'.id = h.id
                     /\ StatusCode(response'.resp) \in {200, 409, 500}]_vars

\* a request that waited for the store was answered 500, nothing written
C30_AnsweredServerError ==
    /\ response = Response("update", "ServerError", 1)
    /\ applications[1].status = "Pending"
    /\ req = EmptyBag

\* the leases of the tenant and the property of application a
LeasesOf(a) ==
    {l \in LeaseIds : /\ leases[l].tenantCognitoId = applications[a].tenantCognitoId
                      /\ leases[l].propertyId = applications[a].propertyId}

\* C31 (lease resolution in listApplications), sequential execution: the lease
\* attached to a returned application is a lease of its tenant and property that
\* no other lease of the pair started after, and is null exactly when the pair
\* has no lease; no step of listApplications writes to the store.
C31_LeaseResolution ==
    [][/\ \A userId \in UserIdInputs, userType \in UserTypeInputs :
            listApplicationsFindMany(userId, userType) => store' = store
       /\ \A h \in InFlight :
            h.op = "list" =>
                /\ listApplicationsCatch(h) => store' = store
                /\ listApplicationsRespond(h) =>
                     /\ store' = store
                     /\ \A row \in response'.rows :
                          IF LeasesOf(row.id) = {}
                          THEN row.lease = Null
                          ELSE /\ row.lease \in LeasesOf(row.id)
                               /\ \A m \in LeasesOf(row.id) :
                                    leases[m].startDate <= leases[row.lease].startDate]_vars

\* a list was answered in which an application carries the later of the two
\* leases of its pair
C31_LaterLeaseListed ==
    /\ response.op = "list" /\ response.resp = "Listed"
    /\ Len(leases) = 2
    /\ leases[1].startDate < leases[2].startDate
    /\ \E row \in response.rows : row.lease = 2 /\ LeasesOf(row.id) = {1, 2}

\* C32 (records are never deleted or rewritten): in every step the Application
\* and Lease tables keep their rows, the fields of a lease are unchanged, and the
\* tenant and the property of an application are unchanged.
C32_RecordsKept ==
    [][/\ Len(applications') >= Len(applications)
       /\ Len(leases') >= Len(leases)
       /\ \A l \in LeaseIds : leases'[l] = leases[l]
       /\ \A a \in AppIds :
            /\ applications'[a].propertyId = applications[a].propertyId
            /\ applications'[a].tenantCognitoId = applications[a].tenantCognitoId]_vars

\* both tables are full and a status was changed after a lease was issued
C32_TablesFull ==
    /\ Len(applications) = MaxApps
    /\ Len(leases) = MaxLeases
    /\ \E a \in AppIds : applications[a].status = "Denied"

\* C35 (leaseId is write-once): once the leaseId of an application is set, no
\* step changes it, to another lease or to null.
C35_LeaseIdWriteOnce ==
    [][\A a \in AppIds :
         applications[a].leaseId # Null =>
             applications'[a].leaseId = applications[a].leaseId]_vars

\* C36 (lease link is consistent): no two applications have the same non-null
\* leaseId, and the lease an application refers to has its tenant and property.
C36_LeaseLinkConsistent ==
    /\ \A a \in AppIds, b \in AppIds :
         (a # b /\ applications[a].leaseId # Null) =>
             applications[a].leaseId # applications[b].leaseId
    /\ \A a \in AppIds :
         applications[a].leaseId # Null =>
             /\ applications[a].leaseId \in LeaseIds
             /\ applications[a].leaseId \in LeasesOf(a)

\* two applications of the same tenant and property, each with its own lease
C36_TwoLinkedOfOnePair ==
    /\ Len(applications) = 2
    /\ applications[1].propertyId = applications[2].propertyId
    /\ applications[1].tenantCognitoId = applications[2].tenantCognitoId
    /\ applications[1].leaseId # Null
    /\ applications[2].leaseId # Null

\* C37 (membership follows leases): a tenant is a tenant of a property exactly
\* when a lease of that tenant and property exists.
C37_MembershipFollowsLeases ==
    tenants = {<<leases[l].propertyId, leases[l].tenantCognitoId>> : l \in LeaseIds}

\* two tenants have a lease on the same property
C37_TwoTenantsOfOneProperty ==
    /\ Len(leases) = 2
    /\ leases[1].propertyId = leases[2].propertyId
    /\ leases[1].tenantCognitoId # leases[2].tenantCognitoId
    /\ Cardinality(tenants) = 2

\* C38 as stated (listed lease agrees with the link), sequential execution: the
\* lease attached to a returned application is null when its leaseId is null and
\* is the lease its leaseId refers to when leaseId is set.
C38_ListedLeaseIsLink ==
    [][\A h \in InFlight :
         (h.op = "list" /\ listApplicationsRespond(h)) =>
             \A row \in response'.rows : row.lease = row.leaseId]_vars

\* C38 (listed lease and the link), sequential execution: the lease attached to
\* a returned application is null only when its leaseId is null; when leaseId is
\* set it is the lease referred to, unless the tenant and property have a lease
\* that started later, which is then attached; when leaseId is null and a lease
\* is attached, it is the lease of another application of the same tenant and
\* property.
C38_ListedLeaseOfPair ==
    [][\A h \in InFlight :
         (h.op = "list" /\ listApplicationsRespond(h)) =>
             \A row \in response'.rows :
                 /\ row.lease = Null => row.leaseId = Null
                 /\ row.leaseId # Null =>
                      \/ row.lease = row.leaseId
                      \/ /\ row.lease \in LeasesOf(row.id)
                         /\ leases[row.lease].startDate > leases[row.leaseId].startDate
                 /\ (row.leaseId = Null /\ row.lease # Null) =>
                      \E b \in AppIds \ {row.id} :
                          /\ applications[b].leaseId = row.lease
                          /\ applications[b].propertyId = applications[row.id].propertyId
                          /\ applications[b].tenantCognitoId
                                 = applications[row.id].tenantCognitoId]_vars

\* a Denied application without lease was listed with the lease of the approved
\* application of the same tenant and property
C38_DeniedListedWithLease ==
    /\ response.op = "list" /\ response.resp = "Listed"
    /\ \E row \in response.rows :
         /\ row.status = "Denied" /\ row.leaseId = Null /\ row.lease # Null

\* the fields the required-field check of createApplication demands
RequiredFields == {"propertyId", "tenantCognitoId", "name", "email", "phoneNumber"}

\* C33 (form payload meets the server contract): the payload that onSubmit hands
\* to the mutation, after the whole form validated, has every field the
\* required-field check of createApplication demands, so that the check of the
\* server does not answer 'Missing required fields' for it.
C33_PayloadMeetsContract ==
    form.payload # NoPayload =>
        /\ RequiredFields \subseteq DOMAIN form.payload
        /\ "MissingField" \notin createApplicationChecks(reqBody(form.payload))

\* C34 (multi-step form state machine): currentStep is within 1..6 and changes
\* by one step at a time: forward by a handleNext that validated the fields of
\* the step being left, backward by handlePrevious, never below 1; no step is
\* skipped.
C34_StepByStep ==
    [][/\ form'.currentStep \in 1..StepsLength
       /\ form'.currentStep > form.currentStep =>
            /\ form'.currentStep = form.currentStep + 1
            /\ \E call \in BagToSet(form.calls) :
                 /\ handleNextResume(call)
                 /\ call.currentStep = form.currentStep
                 /\ call.isValid
       /\ form'.currentStep < form.currentStep =>
            /\ form'.currentStep = form.currentStep - 1
            /\ handlePrevious]_vars

====
